---- MODULE Spec2Model ----
(***************************************************************************)
(* The request-gating middleware of the Leave Request System:              *)
(* src/src/helper/MiddlewareFactory.ts.  A request walks through the       *)
(* stages of its route's pipeline; the gates are logRouteAccess,           *)
(* loginLimiter, authenticateToken and jwtRateLimitMiddleware.             *)
(***************************************************************************)
EXTENDS Integers, Sequences, FiniteSets, TLC

VARIABLES
    now,         \* Date.now(), in milliseconds
    jwtSecret,   \* process.env.JWT_SECRET
    loginStore,  \* the store of the one loginLimiter instance of the login route
    reqs,        \* the requests being handled, one per slot
    ref,         \* history: per key, the requests that reached a limiter in the key's window
    tally        \* history: per key, the requests admitted / rejected in that window

vars == <<now, jwtSecret, loginStore, reqs, ref, tally>>

----------------------------------------------------------------------------
(* Bounds of the model *)

\* the clock advances at most MaxTime ticks
MaxTime == 2
\* ticks per rate-limit window
TicksPerWindow == 2
\* requests a key may send beyond its ceiling within one window
MaxOver == 2

----------------------------------------------------------------------------
(* Program constants *)

LoginMax == 100
JwtMax == 20
LoginWindowMs == 15 * 60 * 1000
JwtWindowMs == 15 * 60 * 1000
UNAUTHORIZED == 401
BAD_REQUEST == 400
TOO_MANY_REQUESTS == 429
LimitMessage == "Too many requests - try again later"

TickMs == LoginWindowMs \div TicksPerWindow

----------------------------------------------------------------------------
(* Values *)

Slots == {"r1", "r2"}
Addrs == {"10.0.0.1", "10.0.0.2"}
Emails == {"a@x.com", "b@x.com"}
Keys == Addrs \cup Emails

\* JavaScript's undefined, and the truthiness test `!v` applies to a claim
Undef == "undefined"
Truthy(v) == v # Undef /\ v # ""

NoUser == [uid |-> Undef, email |-> Undef, role |-> Undef]

\* a decoded payload: a string, or an object that may hold a nested `token`
ObjPayload(uid, email, role) ==
    [kind |-> "object", token |-> "object", uid |-> uid, email |-> email, role |-> role,
     extra |-> "none"]
StringPayload ==
    [kind |-> "string", token |-> "absent", uid |-> Undef, email |-> Undef, role |-> Undef,
     extra |-> "none"]
FlatPayload ==
    [kind |-> "object", token |-> "absent", uid |-> Undef, email |-> Undef, role |-> Undef,
     extra |-> "none"]

\* what `authHeader.split(" ")[1]` yields: undefined, a string that is no JWT, or a JWT
Jwt(signedWith, hasExp, expSec, payload) ==
    [shape |-> "jwt", signedWith |-> signedWith, hasExp |-> hasExp, expSec |-> expSec,
     payload |-> payload]
UndefCred == [Jwt("", FALSE, 0, StringPayload) EXCEPT !.shape = "undefined"]
GarbageCred == [Jwt("", FALSE, 0, StringPayload) EXCEPT !.shape = "garbage"]

TokValidA == Jwt("s1", FALSE, 0, ObjPayload("u1", "a@x.com", "staff"))
\* its nested token holds a fourth field next to uid, email and role
TokValidB ==
    Jwt("s1", FALSE, 0, [ObjPayload("u2", "b@x.com", "admin") EXCEPT !.extra = "isAdmin"])
TokExpiring == Jwt("s1", TRUE, 600, ObjPayload("u1", "a@x.com", "staff"))
TokForged == Jwt("s2", FALSE, 0, ObjPayload("u1", "a@x.com", "staff"))
TokString == Jwt("s1", FALSE, 0, StringPayload)
TokNoNested == Jwt("s1", FALSE, 0, FlatPayload)
TokNoUid == Jwt("s1", FALSE, 0, ObjPayload(Undef, "a@x.com", "staff"))
TokNoEmail == Jwt("s1", FALSE, 0, ObjPayload("u1", Undef, "staff"))
TokNoRole == Jwt("s1", FALSE, 0, ObjPayload("u1", "a@x.com", Undef))
TokEmptyEmail == Jwt("s1", FALSE, 0, ObjPayload("u1", "", "staff"))

ValidTokens == {TokValidA, TokValidB}
Tokens == ValidTokens \cup {TokExpiring, TokForged, TokString, TokNoNested,
                            TokNoUid, TokNoEmail, TokNoRole, TokEmptyEmail}

\* the authorization header of a request
Header(kind, cred) == [kind |-> kind, cred |-> cred]
NoHeader == Header("absent", UndefCred)
EmptyHeader == Header("empty", UndefCred)
SchemeOnlyHeader == Header("noToken", UndefCred)
GarbageHeader == Header("garbage", GarbageCred)
Bearer(tok) == Header("jwt", tok)

Headers == {NoHeader, EmptyHeader, SchemeOnlyHeader, GarbageHeader}
               \cup {Bearer(tok) : tok \in Tokens}

----------------------------------------------------------------------------
(* The pipelines of the routes *)

Routes == {"login", "throttled", "authenticated", "limitOnly"}

Pipeline(route) ==
    CASE route = "login" -> <<"logRouteAccess", "loginLimiter">>
      [] route = "throttled" ->
            <<"logRouteAccess", "authenticateToken", "jwtRateLimitMiddleware">>
      [] route = "authenticated" -> <<"logRouteAccess", "authenticateToken">>
      [] route = "limitOnly" -> <<"logRouteAccess", "jwtRateLimitMiddleware">>
      [] OTHER -> <<>>

----------------------------------------------------------------------------
(* Requests *)

NoClient == [totalHits |-> 0, resetTime |-> 0]
NewStore == [k \in Keys |-> NoClient]

IdleReq ==
    [route |-> "none", ip |-> "none", authorization |-> NoHeader,
     at |-> 0, step |-> "idle",
     signedInUser |-> NoUser, userWrites |-> 0,
     res |-> <<>>, fault |-> "none",
     authRan |-> FALSE, authNext |-> FALSE, authLogs |-> 0, verifyRan |-> FALSE,
     limiterRan |-> FALSE, limiterNext |-> FALSE, handled |-> FALSE,
     downstream |-> "ok", handlerThrew |-> FALSE,
     key |-> "none", hits |-> 0, client |-> NoClient,
     t |-> 0, prev |-> NoClient, ord |-> 0, win |-> 0, rejBefore |-> 0]

NewReq(route, ip, hdr) ==
    [IdleReq EXCEPT !.route = route, !.ip = ip, !.authorization = hdr,
                    !.at = 1, !.step = "run"]

Stage(q) ==
    IF q.at = 0 \/ q.step = "done" THEN "none"
    ELSE IF q.at > Len(Pipeline(q.route)) THEN "handler"
    ELSE Pipeline(q.route)[q.at]

\* next(): control passes to the following stage; after the last gate that is the
\* downstream handler, which ends the request, by returning or by throwing
CallNext(q) ==
    IF q.at + 1 > Len(Pipeline(q.route))
    THEN [q EXCEPT !.at = @ + 1, !.handled = TRUE, !.step = "done",
                   !.handlerThrew = (q.downstream = "throws")]
    ELSE [q EXCEPT !.at = @ + 1, !.step = "run"]

\* the stage returns (or throws) without calling next(): the pipeline ends here
EndRequest(q) == [q EXCEPT !.step = "done"]

\* ResponseHandler.sendErrorResponse(res, status, message)
sendErrorResponse(q, status, message) ==
    [q EXCEPT !.res = Append(@, [status |-> status, message |-> message])]

----------------------------------------------------------------------------
(* Init *)

TypeOK ==
    /\ now \in 0..((MaxTime + 1) * TickMs)
    /\ jwtSecret \in {Undef, "s1"}
    /\ DOMAIN loginStore = Keys
    /\ DOMAIN reqs = Slots

InitWith(secrets) ==
    /\ now = 0
    /\ jwtSecret \in secrets
    /\ loginStore = NewStore
    /\ reqs = [r \in Slots |-> IdleReq]
    /\ ref = NewStore
    /\ tally = [k \in Keys |-> [admitted |-> 0, rejected |-> 0]]

Init == InitWith({Undef, "s1"})

----------------------------------------------------------------------------
(* Environment *)

\* a finished request leaves before anything else happens: nothing reads it any more
NoneDone == \A r \in Slots : reqs[r].step # "done"

Tick ==
    /\ NoneDone
    /\ now < MaxTime * TickMs
    /\ now' = now + TickMs
    /\ UNCHANGED <<jwtSecret, loginStore, reqs, ref, tally>>

Arrive(r, route, ip, hdr) ==
    /\ NoneDone
    /\ reqs[r].step = "idle"
    /\ reqs' = [reqs EXCEPT ![r] = NewReq(route, ip, hdr)]
    /\ UNCHANGED <<now, jwtSecret, loginStore, ref, tally>>

----------------------------------------------------------------------------
(* logRouteAccess *)

logRouteAccess(r) ==
    /\ NoneDone
    /\ Stage(reqs[r]) = "logRouteAccess"
    /\ reqs' = [reqs EXCEPT ![r] = CallNext(@)]
    /\ UNCHANGED <<now, jwtSecret, loginStore, ref, tally>>

----------------------------------------------------------------------------
(* authenticateToken *)

\* `!authHeader`
HeaderFalsy(authHeader) == authHeader.kind \in {"absent", "empty"}

\* `authHeader.split(" ")` throws a TypeError on undefined
SplitThrows(authHeader) == authHeader.kind = "absent"

\* `authHeader.split(" ")[1]`
SplitToken(authHeader) == authHeader.cred

\* jwt.verify(tokenReceived, jwtSecret, callback): the (err, payload) the callback gets
jwtVerify(tokenReceived, secret, t) ==
    IF tokenReceived.shape # "jwt"
    THEN [err |-> TRUE, payload |-> StringPayload]
    ELSE IF tokenReceived.signedWith # secret
    THEN [err |-> TRUE, payload |-> StringPayload]
    ELSE IF tokenReceived.hasExp /\ (t \div 1000) >= tokenReceived.expSec
    THEN [err |-> TRUE, payload |-> StringPayload]
    ELSE [err |-> FALSE, payload |-> tokenReceived.payload]

\* `err || !payload || typeof payload !== "object"`
PayloadRejected(err, payload) == err \/ payload.kind # "object"

ClaimsThrow_noUid(payload) ==
    \/ payload.token # "object"
    \/ ~Truthy(payload.email)
    \/ ~Truthy(payload.role)

\* the try block throws: destructuring a missing `token`, or a falsy claim
ClaimsThrow(payload) ==
    \/ payload.token # "object"
    \/ ~Truthy(payload.email)
    \/ ~Truthy(payload.role)
    \/ ~Truthy(payload.uid)

AuthLog_silent(q) == q

\* Logger.error(...): authenticateToken logs in its failure branches only
AuthLog(q) == [q EXCEPT !.authLogs = @ + 1]

ClaimsOf_withExtra(payload) ==
    [uid |-> payload.uid, email |-> payload.email, role |-> payload.role,
     extra |-> payload.extra]

\* `req.signedInUser = { uid, email, role }`
ClaimsOf(payload) == [uid |-> payload.uid, email |-> payload.email, role |-> payload.role]

NextThrows_propagates(q) == q.handlerThrew

\* whether the `next()` inside the try block throws into it: the router calls the
\* following stage inside a try of its own and hands what it throws to its error handling,
\* so next() returns
NextThrows(q) == FALSE

\* the callback handed to jwt.verify
VerifyCallback(q, err, payload) ==
    IF PayloadRejected(err, payload)
    THEN EndRequest(sendErrorResponse(AuthLog(q), UNAUTHORIZED,
                                      "Not authorised - Token is invalid"))
    ELSE IF ClaimsThrow(payload)
    THEN EndRequest(sendErrorResponse(AuthLog(q), UNAUTHORIZED,
                                      "Not authorised - Token is invalid"))
    ELSE LET passed == CallNext([q EXCEPT !.signedInUser = ClaimsOf(payload),
                                          !.userWrites = @ + 1,
                                          !.authNext = TRUE])
         IN  IF NextThrows(passed)
             THEN EndRequest(sendErrorResponse(AuthLog(passed), UNAUTHORIZED,
                                               "Not authorised - Token is invalid"))
             ELSE passed

MissingHeaderBranch_silent(q) == q

\* the missing-header branch: it responds and does not return
MissingHeaderBranch(q) ==
    IF HeaderFalsy(q.authorization)
    THEN sendErrorResponse(AuthLog(q), UNAUTHORIZED, "Not authorised - Token not found")
    ELSE q

\* the request after authenticateToken(req, res, next) has run
AuthenticateResult(q, secret, t) ==
    LET q1 == MissingHeaderBranch([q EXCEPT !.authRan = TRUE])
    IN  IF SplitThrows(q.authorization)
        THEN EndRequest([q1 EXCEPT !.fault = "TypeError"])
        ELSE IF ~Truthy(secret)
        THEN EndRequest([AuthLog(q1) EXCEPT !.fault = "Error"])
        ELSE LET v == jwtVerify(SplitToken(q.authorization), secret, t)
             IN  VerifyCallback([q1 EXCEPT !.verifyRan = TRUE], v.err, v.payload)

authenticateToken(r) ==
    /\ NoneDone
    /\ Stage(reqs[r]) = "authenticateToken"
    /\ reqs' = [reqs EXCEPT ![r] = AuthenticateResult(@, jwtSecret, now)]
    /\ UNCHANGED <<now, jwtSecret, loginStore, ref, tally>>

----------------------------------------------------------------------------
(* The rate limiters *)

loginLimiterOptions_jwtMax ==
    [windowMs |-> LoginWindowMs, max |-> JwtMax, message |-> LimitMessage,
     keyBy |-> "ip"]

\* the options loginLimiter() hands to rateLimit; its key is the default, req.ip
loginLimiterOptions ==
    [windowMs |-> LoginWindowMs, max |-> LoginMax, message |-> LimitMessage,
     keyBy |-> "ip"]

\* jwtRateLimiter(userEmail): a new limiter, with a store of its own, keyed by userEmail
jwtRateLimiter(userEmail) ==
    [windowMs |-> JwtWindowMs, max |-> JwtMax, message |-> LimitMessage,
     keyBy |-> userEmail, store |-> NewStore]

LimiterKey_shared(limiter, q) == IF limiter.keyBy = "ip" THEN "10.0.0.1" ELSE limiter.keyBy

\* keyGenerator(req)
LimiterKey(limiter, q) == IF limiter.keyBy = "ip" THEN q.ip ELSE limiter.keyBy

Increment_lateReset(store, key, t, windowMs) ==
    LET c == store[key]
        live == IF c.resetTime < t \/ c.resetTime = 0
                THEN [totalHits |-> 0, resetTime |-> t + windowMs]
                ELSE c
    IN  [store EXCEPT ![key] = [live EXCEPT !.totalHits = @ + 1]]

\* store.increment(key): a client whose window has passed starts a new one
Increment(store, key, t, windowMs) ==
    LET c == store[key]
        live == IF c.resetTime <= t
                THEN [totalHits |-> 0, resetTime |-> t + windowMs]
                ELSE c
    IN  [store EXCEPT ![key] = [live EXCEPT !.totalHits = @ + 1]]

Exceeded_orEqual(totalHits, max) == totalHits >= max
Exceeded_once(totalHits, max) == totalHits = max + 1

\* `totalHits > limit`
Exceeded(totalHits, max) == totalHits > max

\* history: the key the policy means the request to be counted under
RefKey(q) == IF q.route = "login" THEN q.ip ELSE q.key

\* history: the reference window of a key, and the request's place in it
RefCheck(registry, key, t) ==
    IF registry[key].resetTime <= t
    THEN [registry EXCEPT ![key] = [totalHits |-> 1, resetTime |-> t + LoginWindowMs]]
    ELSE [registry EXCEPT ![key].totalHits = @ + 1]

TallyAtCheck(key, t) ==
    IF ref[key].resetTime <= t
    THEN [tally EXCEPT ![key] = [admitted |-> 0, rejected |-> 0]]
    ELSE tally

TallyAtDecision(q, admit) ==
    IF q.win # ref[RefKey(q)].resetTime THEN tally
    ELSE IF admit THEN [tally EXCEPT ![RefKey(q)].admitted = @ + 1]
    ELSE [tally EXCEPT ![RefKey(q)].rejected = @ + 1]

\* the limiter counts the request: `await store.increment(key)`
Counted(q, key, client, t) ==
    LET k == RefKey([q EXCEPT !.key = key])
    IN  [q EXCEPT !.limiterRan = TRUE, !.key = key, !.hits = client.totalHits,
                  !.client = client, !.step = "await",
                  !.t = t, !.prev = ref[k],
                  !.ord = RefCheck(ref, k, t)[k].totalHits,
                  !.win = RefCheck(ref, k, t)[k].resetTime,
                  !.rejBefore = IF ref[k].resetTime <= t THEN 0 ELSE tally[k].rejected]

Decided_clearsUser(q, limiter) ==
    IF Exceeded(q.hits, limiter.max)
    THEN EndRequest([q EXCEPT !.res = Append(@, [status |-> TOO_MANY_REQUESTS,
                                                message |-> limiter.message])])
    ELSE CallNext([q EXCEPT !.limiterNext = TRUE, !.signedInUser = NoUser])

\* the limiter decides, once the count is back
Decided(q, limiter) ==
    IF Exceeded(q.hits, limiter.max)
    THEN EndRequest([q EXCEPT !.res = Append(@, [status |-> TOO_MANY_REQUESTS,
                                                message |-> limiter.message])])
    ELSE CallNext([q EXCEPT !.limiterNext = TRUE])

loginLimiter(r) ==
    LET q == reqs[r]
        key == LimiterKey(loginLimiterOptions, q)
        store == Increment(loginStore, key, now, loginLimiterOptions.windowMs)
    IN  /\ NoneDone
        /\ Stage(q) = "loginLimiter"
        /\ q.step = "run"
        /\ loginStore' = store
        /\ reqs' = [reqs EXCEPT ![r] = Counted(q, key, store[key], now)]
        /\ ref' = RefCheck(ref, q.ip, now)
        /\ tally' = TallyAtCheck(q.ip, now)
        /\ UNCHANGED <<now, jwtSecret>>

loginLimiterResume(r) ==
    LET q == reqs[r]
    IN  /\ NoneDone
        /\ Stage(q) = "loginLimiter"
        /\ q.step = "await"
        /\ reqs' = [reqs EXCEPT ![r] = Decided(q, loginLimiterOptions)]
        /\ tally' = TallyAtDecision(q, ~Exceeded(q.hits, loginLimiterOptions.max))
        /\ UNCHANGED <<now, jwtSecret, loginStore, ref>>

EmailOf_unverified(q) == q.authorization.cred.payload.email

\* `req.signedInUser?.email`
EmailOf(q) == q.signedInUser.email

jwtRateLimitMiddleware(r) ==
    LET q == reqs[r]
        email == EmailOf(q)
        limiter == jwtRateLimiter(email)
        key == LimiterKey(limiter, q)
        store == Increment(limiter.store, key, now, limiter.windowMs)
    IN  /\ NoneDone
        /\ Stage(q) = "jwtRateLimitMiddleware"
        /\ q.step = "run"
        /\ IF Truthy(email)
           THEN /\ reqs' = [reqs EXCEPT ![r] = Counted(q, key, store[key], now)]
                /\ ref' = RefCheck(ref, key, now)
                /\ tally' = TallyAtCheck(key, now)
           ELSE /\ reqs' = [reqs EXCEPT ![r] =
                      EndRequest(sendErrorResponse(q, BAD_REQUEST,
                                                   "Missing email in token."))]
                /\ UNCHANGED <<ref, tally>>
        /\ UNCHANGED <<now, jwtSecret, loginStore>>

jwtRateLimiterResume(r) ==
    LET q == reqs[r]
        limiter == jwtRateLimiter(q.key)
    IN  /\ NoneDone
        /\ Stage(q) = "jwtRateLimitMiddleware"
        /\ q.step = "await"
        /\ reqs' = [reqs EXCEPT ![r] = Decided(q, limiter)]
        /\ tally' = TallyAtDecision(q, ~Exceeded(q.hits, limiter.max))
        /\ UNCHANGED <<now, jwtSecret, loginStore, ref>>

----------------------------------------------------------------------------
(* Specifications *)

\* the finished request leaves; its slot is not used again
Finish(r) ==
    /\ reqs[r].step = "done"
    /\ reqs' = [reqs EXCEPT ![r] = [IdleReq EXCEPT !.step = "gone"]]
    /\ UNCHANGED <<now, jwtSecret, loginStore, ref, tally>>

\* a request with a valid token whose downstream handler will throw
ArriveFaulty(r, route, hdr) ==
    /\ NoneDone
    /\ reqs[r].step = "idle"
    /\ reqs' = [reqs EXCEPT ![r] = [NewReq(route, "10.0.0.1", hdr)
                                       EXCEPT !.downstream = "throws"]]
    /\ UNCHANGED <<now, jwtSecret, loginStore, ref, tally>>

\* a request of any route, with any header; every slot carries one request
ArriveAny(r) ==
    \/ \E ip \in Addrs : Arrive(r, "login", ip, NoHeader)
    \/ \E route \in Routes \ {"login"}, hdr \in Headers :
          Arrive(r, route, "10.0.0.1", hdr)
    \/ \E route \in {"authenticated", "throttled"}, tok \in ValidTokens :
          ArriveFaulty(r, route, Bearer(tok))

Next ==
    \/ Tick
    \/ \E r \in Slots :
          \/ ArriveAny(r)
          \/ logRouteAccess(r)
          \/ authenticateToken(r)
          \/ jwtRateLimitMiddleware(r)
          \/ jwtRateLimiterResume(r)
          \/ loginLimiter(r)
          \/ loginLimiterResume(r)
          \/ Finish(r)

Spec == Init /\ [][Next]_vars

----------------------------------------------------------------------------
(* Specifications of sustained traffic: a finished request leaves its slot,   *)
(* which takes the next one                                                   *)

InitConfigured == InitWith({"s1"})

Retire(r) ==
    /\ reqs[r].step = "done"
    /\ reqs' = [reqs EXCEPT ![r] = IdleReq]
    /\ UNCHANGED <<now, jwtSecret, loginStore, ref, tally>>

\* a key sends at most MaxOver requests beyond the ceiling in one window
WithinCap(key, max) == ref[key].resetTime <= now \/ ref[key].totalHits < max + MaxOver

\* the login route, one source address, the clock running
ArriveLogin(r) ==
    /\ WithinCap("10.0.0.1", LoginMax)
    /\ Arrive(r, "login", "10.0.0.1", NoHeader)

NextLogin ==
    \/ Tick
    \/ \E r \in Slots :
          \/ ArriveLogin(r)
          \/ logRouteAccess(r)
          \/ loginLimiter(r)
          \/ loginLimiterResume(r)
          \/ Retire(r)

SpecLogin == InitConfigured /\ [][NextLogin]_vars

\* the login route, two source addresses taking turns, within one window
ArriveFrom(r) ==
    \E ip \in Addrs :
        /\ r = "r1"
        /\ WithinCap(ip, LoginMax)
        /\ Arrive(r, "login", ip, NoHeader)

NextKeys ==
    \E r \in Slots :
        \/ ArriveFrom(r)
        \/ logRouteAccess(r)
        \/ loginLimiter(r)
        \/ loginLimiterResume(r)
        \/ Retire(r)

SpecKeys == InitConfigured /\ [][NextKeys]_vars

\* the authenticated throttled route, valid tokens of two users, within one window
ArriveThrottled(r) ==
    \E tok \in ValidTokens :
        /\ WithinCap(tok.payload.email, JwtMax)
        /\ Arrive(r, "throttled", "10.0.0.1", Bearer(tok))

NextJwt ==
    \E r \in Slots :
        \/ ArriveThrottled(r)
        \/ logRouteAccess(r)
        \/ authenticateToken(r)
        \/ jwtRateLimitMiddleware(r)
        \/ jwtRateLimiterResume(r)
        \/ Retire(r)

SpecJwt == InitConfigured /\ [][NextJwt]_vars

----------------------------------------------------------------------------
(* Properties *)

Finished(q) == q.step = "done"
IdentityComplete(q) ==
    /\ Truthy(q.signedInUser.uid)
    /\ Truthy(q.signedInUser.email)
    /\ Truthy(q.signedInUser.role)
Responded(q, status, message) == q.res = <<[status |-> status, message |-> message]>>
AuthResponded(q) ==
    \E i \in 1..Len(q.res) :
        q.res[i].message \in {"Not authorised - Token not found",
                              "Not authorised - Token is invalid"}

\* the header does not carry a token that verifies and holds all three claims
BadCredential(q) ==
    \/ q.authorization.kind # "jwt"
    \/ q.authorization.cred.signedWith # jwtSecret
    \/ q.authorization.cred.payload.kind # "object"
    \/ q.authorization.cred.payload.token # "object"
    \/ \E c \in {q.authorization.cred.payload.uid, q.authorization.cred.payload.email,
                 q.authorization.cred.payload.role} : c \in {Undef, ""}

\* C1 (as claimed): of the requests of one identity that reach the identity gate in one
\* window, the first 20 are admitted and the 21st is answered 429 without next
C1_IdentityCeiling ==
    \A r \in Slots :
        LET q == reqs[r]
        IN  Finished(q) /\ q.route = "throttled" /\ q.limiterRan =>
               /\ q.ord \in 1..20 => q.limiterNext /\ q.res = <<>>
               /\ q.ord = 21 =>
                     /\ Responded(q, 429, "Too many requests - try again later")
                     /\ ~q.limiterNext

\* C2: a request without an authorization header gets a 401 from authenticateToken, which
\* does not call next; no limiter and no handler runs for it and no identity is attached
C2_NoHeaderUnauthorized ==
    \A r \in Slots :
        LET q == reqs[r]
        IN  q.authRan /\ q.authorization.kind = "absent" =>
               /\ Responded(q, 401, "Not authorised - Token not found")
               /\ ~q.authNext
               /\ ~q.limiterRan
               /\ ~q.handled
               /\ q.signedInUser = NoUser
               /\ q.userWrites = 0

C2_Witness ==
    \E r \in Slots :
        /\ reqs[r].authRan
        /\ reqs[r].authorization.kind = "absent"
        /\ Finished(reqs[r])
        /\ Len(reqs[r].res) = 1

\* C3 (as claimed): with the secret configured, a request that authenticateToken does not
\* let through ends with an error response and without an uncaught exception
C3_NoUncaughtFault ==
    \A r \in Slots :
        LET q == reqs[r]
        IN  q.authRan /\ Truthy(jwtSecret) /\ ~q.authNext =>
               /\ q.fault = "none"
               /\ q.res # <<>>

\* C4: authenticateToken calls next only with a complete identity attached; when it
\* fails (a response of its own, an exception, a bad credential) it attaches nothing
\* and does not call next
C4_NextOnlyWithIdentity ==
    \A r \in Slots :
        LET q == reqs[r]
        IN  q.authRan =>
               /\ q.authNext => IdentityComplete(q) /\ q.userWrites = 1
               /\ ~q.authNext => q.signedInUser = NoUser /\ q.userWrites = 0
               /\ AuthResponded(q) \/ q.fault # "none" \/ BadCredential(q) =>
                     ~q.authNext /\ q.signedInUser = NoUser

C4_Witness ==
    \E r1, r2 \in Slots :
        /\ reqs[r1].authNext
        /\ reqs[r1].signedInUser = [uid |-> "u1", email |-> "a@x.com", role |-> "staff"]
        /\ reqs[r2].authRan
        /\ reqs[r2].authorization = Bearer(TokNoUid)
        /\ Responded(reqs[r2], 401, "Not authorised - Token is invalid")

\* C5: the identity-keyed limiter runs for a request only after authenticateToken has
\* verified its token, attached the identity and called next
C5_LimiterAfterAuthentication ==
    \A r \in Slots :
        LET q == reqs[r]
        IN  q.limiterRan /\ q.route # "login" =>
               /\ q.authRan
               /\ q.authNext
               /\ IdentityComplete(q)
               /\ ~BadCredential(q)
               /\ q.key = q.signedInUser.email

C5_Witness ==
    \E r \in Slots :
        /\ reqs[r].route = "throttled"
        /\ reqs[r].limiterRan
        /\ reqs[r].step = "await"
        /\ reqs[r].key = "b@x.com"

\* C6: of the requests one source address sends to the login route in one window, the
\* first 100 reach the downstream handler and the 101st is answered 429 "Too many
\* requests - try again later" and does not reach it
C6_LoginCeiling ==
    \A r \in Slots :
        LET q == reqs[r]
        IN  Finished(q) /\ q.route = "login" /\ q.limiterRan =>
               /\ q.ord \in 1..100 => q.handled /\ q.limiterNext /\ q.res = <<>>
               /\ q.ord = 101 =>
                     /\ Responded(q, 429, "Too many requests - try again later")
                     /\ ~q.handled
                     /\ ~q.limiterNext

C6_Witness ==
    \E r \in Slots :
        /\ Finished(reqs[r])
        /\ reqs[r].route = "login"
        /\ reqs[r].ord = 101
        /\ Len(reqs[r].res) = 1

\* C7 (as claimed): under any interleaving, the requests admitted for one key in one
\* window never number more than the ceiling of its policy
C7_AdmittedWithinCeiling ==
    /\ \A k \in Emails : tally[k].admitted <= 20
    /\ \A k \in Addrs : tally[k].admitted <= 100

\* C8 (as claimed): the count stored for a key never exceeds the ceiling of its policy
C8_CountWithinCeiling ==
    /\ \A k \in Addrs : loginStore[k].totalHits <= 100
    /\ \A r \in Slots :
          reqs[r].limiterRan /\ reqs[r].route # "login" => reqs[r].client.totalHits <= 20

\* the requests of key k counted in its current window and not yet decided
Pending(k) ==
    {r \in Slots : /\ reqs[r].step = "await"
                   /\ RefKey(reqs[r]) = k
                   /\ reqs[r].win = ref[k].resetTime}

\* C8 (amended): the stored count of a key is the number of requests counted in its
\* window, the rejected ones included: it stays within the ceiling until the ceiling is
\* reached and then exceeds it by the number of requests rejected or about to be; the
\* requests admitted stay within the ceiling
C8_CountIsCeilingPlusRejected ==
    /\ \A k \in Addrs :
          LET c == loginStore[k]
              over == {r \in Pending(k) : reqs[r].hits > 100}
          IN  /\ c.totalHits =
                    tally[k].admitted + tally[k].rejected + Cardinality(Pending(k))
              /\ tally[k].admitted <= 100
              /\ c.totalHits > 100 =>
                    c.totalHits - 100 = tally[k].rejected + Cardinality(over)
              /\ c.totalHits <= 100 => tally[k].rejected = 0
    /\ \A r \in Slots :
          reqs[r].limiterRan /\ reqs[r].route # "login" => reqs[r].client.totalHits <= 20

C8_Witness ==
    \E k \in Addrs :
        /\ loginStore[k].totalHits = 102
        /\ tally[k].rejected = 2
        /\ tally[k].admitted = 100

\* C9: the decision for a request of one key is the one its own requests alone lead to
\* (admitted exactly while they number at most 100 in the window), whatever the other
\* key has sent, its quota used up or not
C9_KeysIndependent ==
    \A r \in Slots :
        LET q == reqs[r]
        IN  Finished(q) /\ q.route = "login" /\ q.limiterRan =>
               /\ q.hits = q.ord
               /\ q.handled <=> q.ord <= 100
               /\ ~q.handled <=> Responded(q, 429, "Too many requests - try again later")

C9_Witness ==
    \E r \in Slots :
        /\ Finished(reqs[r])
        /\ reqs[r].ip = "10.0.0.2"
        /\ reqs[r].handled
        /\ reqs[r].ord = 100
        /\ loginStore["10.0.0.1"].totalHits > 100
        /\ tally["10.0.0.1"].rejected > 0

\* C10: a request that arrives for a key after the key's window has passed opens a new
\* window with count 1 and is admitted, also when that window had reached the ceiling;
\* a request arriving inside a window that has reached the ceiling is rejected
C10_WindowRollover ==
    \A r \in Slots :
        LET q == reqs[r]
        IN  Finished(q) /\ q.route = "login" /\ q.limiterRan =>
               /\ q.t >= q.prev.resetTime =>
                     /\ q.client = [totalHits |-> 1, resetTime |-> q.t + 900000]
                     /\ q.hits = 1
                     /\ q.handled
                     /\ q.res = <<>>
               /\ q.t < q.prev.resetTime /\ q.prev.totalHits >= 100 =>
                     /\ ~q.handled
                     /\ Responded(q, 429, "Too many requests - try again later")

C10_Witness ==
    \E r \in Slots :
        /\ Finished(reqs[r])
        /\ reqs[r].route = "login"
        /\ reqs[r].prev.totalHits >= 100
        /\ reqs[r].t >= reqs[r].prev.resetTime
        /\ reqs[r].handled

\* the header carries a token that verifies against the configured secret and whose
\* payload lacks the nested token object or one of uid, email and role
MissingClaims(q) ==
    /\ Truthy(jwtSecret)
    /\ q.authorization.kind = "jwt"
    /\ q.authorization.cred.signedWith = jwtSecret
    /\ ~q.authorization.cred.hasExp
    /\ q.authorization.cred.payload.kind = "object"
    /\ \/ q.authorization.cred.payload.token # "object"
       \/ \E c \in {q.authorization.cred.payload.uid, q.authorization.cred.payload.email,
                    q.authorization.cred.payload.role} : c \in {Undef, ""}

\* C11 (as claimed): a validly signed token whose payload lacks uid, email or role is
\* answered with status 400, not with the 401 of a missing header or a failed verification
C11_MissingClaimsBadRequest ==
    \A r \in Slots :
        LET q == reqs[r]
        IN  q.authRan /\ MissingClaims(q) =>
               /\ Len(q.res) = 1
               /\ q.res[1].status = 400

\* C11: a validly signed token whose payload lacks the nested token object or one of uid,
\* email and role is answered 401 "Not authorised - Token is invalid", the answer a failed
\* verification gets; next is not called and no identity is attached
C11_MissingClaimsUnauthorized ==
    \A r \in Slots :
        LET q == reqs[r]
        IN  q.authRan /\ MissingClaims(q) =>
               /\ q.verifyRan
               /\ Responded(q, 401, "Not authorised - Token is invalid")
               /\ ~q.authNext
               /\ ~q.handled
               /\ q.signedInUser = NoUser
               /\ q.fault = "none"

C11_Witness ==
    \E r \in Slots :
        /\ reqs[r].authRan
        /\ MissingClaims(reqs[r])
        /\ reqs[r].authorization.cred.payload.token = "object"
        /\ Finished(reqs[r])
        /\ Len(reqs[r].res) = 1

\* the header carries a token that verifies against the configured secret, has not
\* expired, and holds a nested token object with non-empty uid, email and role
GoodCredential(q) ==
    /\ Truthy(jwtSecret)
    /\ q.authorization.kind = "jwt"
    /\ q.authorization.cred.signedWith = jwtSecret
    /\ q.authorization.cred.hasExp => (now \div 1000) < q.authorization.cred.expSec
    /\ q.authorization.cred.payload.kind = "object"
    /\ q.authorization.cred.payload.token = "object"
    /\ \A c \in {q.authorization.cred.payload.uid, q.authorization.cred.payload.email,
                 q.authorization.cred.payload.role} : c \notin {Undef, ""}

\* C12: for a valid, unexpired token whose nested token object holds non-empty uid, email
\* and role, authenticateToken attaches an identity of exactly these three values,
\* whatever else the payload holds, calls next, and sends no response
C12_ValidTokenAttachesIdentity ==
    \A r \in Slots :
        LET q == reqs[r]
            payload == q.authorization.cred.payload
        IN  q.authRan /\ GoodCredential(q) =>
               /\ q.signedInUser = [uid |-> payload.uid, email |-> payload.email,
                                    role |-> payload.role]
               /\ q.userWrites = 1
               /\ q.authNext
               /\ q.at > 2
               /\ ~AuthResponded(q)
               /\ q.fault = "none"
               /\ q.authLogs = 0

C12_Witness ==
    \E r \in Slots :
        /\ reqs[r].authRan
        /\ GoodCredential(reqs[r])
        /\ reqs[r].authorization.cred.payload.extra = "isAdmin"
        /\ reqs[r].signedInUser = [uid |-> "u2", email |-> "b@x.com", role |-> "admin"]
        /\ reqs[r].handled
        /\ reqs[r].res = <<>>

\* C13 (as claimed): no request gets more than one response from the gates, and a gate
\* that has passed control on has sent no response
C13_OneOutcomePerStage ==
    \A r \in Slots :
        LET q == reqs[r]
        IN  /\ Len(q.res) <= 1
            /\ q.authNext => ~AuthResponded(q)
            /\ q.limiterNext \/ q.handled => q.res = <<>>

\* the request reached jwtRateLimitMiddleware with no email in req.signedInUser
NoEmailAtLimiter(q) ==
    /\ q.route \in {"limitOnly", "throttled"}
    /\ ~Truthy(q.signedInUser.email)
    /\ \/ q.at > Len(Pipeline(q.route))
       \/ q.at = Len(Pipeline(q.route)) /\ q.step \in {"await", "done"}

\* C14: when jwtRateLimitMiddleware runs for a request without an identity, or with one
\* that has no email, it answers 400 "Missing email in token.", does not call next, calls
\* no limiter, leaves every rate-limit counter alone and raises no exception
C14_NoEmailBadRequest ==
    \A r \in Slots :
        LET q == reqs[r]
        IN  NoEmailAtLimiter(q) =>
               /\ Finished(q)
               /\ Responded(q, 400, "Missing email in token.")
               /\ ~q.limiterRan
               /\ ~q.limiterNext
               /\ ~q.handled
               /\ q.client = NoClient
               /\ q.ord = 0
               /\ q.fault = "none"

C14_Witness ==
    \E r \in Slots :
        /\ reqs[r].route = "limitOnly"
        /\ reqs[r].authorization.kind = "jwt"
        /\ Finished(reqs[r])
        /\ reqs[r].res = <<[status |-> 400, message |-> "Missing email in token."]>>

\* C15 (as claimed): with no secret configured, a request that carries an authorization
\* header ends in a fatal fault: authenticateToken sends no response, attaches no identity,
\* does not start verification and does not call next
C15_NoSecretIsFatal ==
    \A r \in Slots :
        LET q == reqs[r]
        IN  q.authRan /\ ~Truthy(jwtSecret) /\ q.authorization.kind # "absent" =>
               /\ q.fault = "Error"
               /\ q.res = <<>>
               /\ q.signedInUser = NoUser
               /\ ~q.verifyRan
               /\ ~q.authNext

\* the same for a header whose value is not empty
C15_NoSecretIsFatalNonEmpty ==
    \A r \in Slots :
        LET q == reqs[r]
        IN  q.authRan /\ ~Truthy(jwtSecret) /\ ~HeaderFalsy(q.authorization) =>
               /\ q.fault = "Error"
               /\ q.res = <<>>
               /\ q.signedInUser = NoUser
               /\ ~q.verifyRan
               /\ ~q.authNext

\* C16: within one window a rejection is sticky: a request counted after one of its key
\* was rejected in the window is rejected too, and a rejected request has raised the count
C16_RejectionSticky ==
    \A r \in Slots :
        LET q == reqs[r]
        IN  Finished(q) /\ q.limiterRan =>
               /\ q.rejBefore > 0 =>
                     /\ Responded(q, 429, "Too many requests - try again later")
                     /\ ~q.limiterNext
                     /\ ~q.handled
               /\ ~q.limiterNext /\ q.t < q.prev.resetTime =>
                     /\ q.client.totalHits = q.prev.totalHits + 1
                     /\ q.client.resetTime = q.prev.resetTime

C16_Witness ==
    \E r \in Slots :
        /\ Finished(reqs[r])
        /\ reqs[r].rejBefore > 0
        /\ reqs[r].client.totalHits = LoginMax + 2
        /\ reqs[r].res = <<[status |-> 429, message |-> "Too many requests - try again later"]>>

C18_IdentityImmutable ==
    [][\A r \in Slots :
          LET q == reqs[r]
              after == reqs'[r]
          IN  /\ after.userWrites <= 1
              /\ after.userWrites = 0 => after.signedInUser = NoUser
              /\ after.userWrites = 1 => IdentityComplete(after) /\ after.authNext
              /\ q.userWrites = 1 /\ after.step \notin {"idle", "gone"} =>
                    /\ after.signedInUser = q.signedInUser
                    /\ after.userWrites = 1]_vars

C18_Witness ==
    \E r \in Slots :
        /\ reqs[r].userWrites = 1
        /\ reqs[r].limiterNext
        /\ reqs[r].handled
        /\ IdentityComplete(reqs[r])

====
